---- MODULE Spec2Model ----
(***************************************************************************)
(* The cohort extraction notebook (src/cohort_extraction.ipynb) as a state *)
(* machine: the in-memory table `cohort` is threaded through the notebook's *)
(* cells, one action per cell (or per statement group of a cell).           *)
(*                                                                         *)
(* Numbers are fixed point with one decimal: a float x of the notebook is  *)
(* the integer 10*x here (Fx), so that the potassium bounds 3.5 and 5.0    *)
(* and the benchmark probabilities are exact.  A cell of the table is a    *)
(* number, NaN (the missing marker np.nan / None) or a string.             *)
(***************************************************************************)
EXTENDS Integers, Sequences, FiniteSets, TLC

VARIABLES pc, cohort, columns, label, apache_pred, split, files,
          con, cur, exc, sent, view

vars == <<pc, cohort, columns, label, apache_pred, split, files,
          con, cur, exc, sent, view>>

(***************************************************************************)
(* Bounds of the model.                                                    *)
(***************************************************************************)
MaxRows == 3

(***************************************************************************)
(* Cells.                                                                  *)
(***************************************************************************)
Fx(n) == 10 * n

NaN == [t |-> "nan", s |-> "", v |-> 0]

Num(x) == [t |-> "num", s |-> "", v |-> x]

Str(s) == [t |-> "str", s |-> s, v |-> 0]

IsNum(c) == c.t = "num"

IsNaN(c) == c.t = "nan"

\* Elementwise comparisons of a float column with a scalar or another column:
\* any comparison involving NaN is False.
GeC(c, n) == IsNum(c) /\ c.v >= n

LeC(c, n) == IsNum(c) /\ c.v <= n

LtC(c, n) == IsNum(c) /\ c.v < n

GeCC(a, b) == IsNum(a) /\ IsNum(b) /\ a.v >= b.v

\* column - scalar, abs(column), column + column: NaN propagates.
SubC(c, n) == IF IsNum(c) THEN Num(c.v - n) ELSE NaN

AbsC(c) == IF IsNum(c) THEN Num(IF c.v < 0 THEN -c.v ELSE c.v) ELSE NaN

AddC(a, b) == IF IsNum(a) /\ IsNum(b) THEN Num(a.v + b.v) ELSE NaN

(***************************************************************************)
(* Program constants.                                                      *)
(***************************************************************************)
AgeOver89 == 930

MinAge == 180

MinLos == 2400

MinWeight == 500

MaxWeight == 3000

MinHeight == 500

MaxHeight == 2500

SodiumLow == 1350

SodiumHigh == 1450

PotassiumLow == 35

PotassiumHigh == 50

WbcThreshold == 20

PmnThreshold == 450

LymThreshold == 200

Sentinel == -10

SurgicalBleed == {"S-UGIBLEED", "S-LGIBLEED"}

\* The admission diagnoses of the base cohort (output of cell 9), in Python's
\* string order, which is the order pd.get_dummies gives its categories.
DxOrder == <<"LOWGIBLEED", "S-LGIBLEED", "S-UGIBLEED", "UGIBLEED", "UNKGIBLEED">>

AdxName(d) ==
  CASE d = "LOWGIBLEED" -> "adx_LOWGIBLEED"
    [] d = "S-LGIBLEED" -> "adx_S-LGIBLEED"
    [] d = "S-UGIBLEED" -> "adx_S-UGIBLEED"
    [] d = "UGIBLEED" -> "adx_UGIBLEED"
    [] d = "UNKGIBLEED" -> "adx_UNKGIBLEED"

AdxColumns == {AdxName(DxOrder[i]) : i \in DOMAIN DxOrder}

(***************************************************************************)
(* The schema of the joined table: 34 columns of the base cohort query and *)
(* 73 of the feature set query, merged on patientunitstayid (106 columns). *)
(***************************************************************************)
BaseColumns ==
  {"patientunitstayid", "age", "gender", "ethnicity", "height", "weight",
   "unit_type", "unitadmitsource", "unit_los", "hospital_los",
   "gcs_meds", "gcs_verbal", "gcs_motor", "gcs_eyes", "admit_diagnosis",
   "hepatic_failure", "metastatic_cancer", "immunosuppression", "cirrhosis",
   "diabetes", "copd", "cad", "afib", "ckd", "apache_readmit", "apache_midur",
   "apache_ventday1", "apache_intubday1", "apache_fio2", "apache_pao2",
   "apache_o2ratio", "apache_prediction", "apache_score", "hospital_expiration"}

Analytes ==
  {"albumin", "amylase", "bicarbonate", "bun", "cpk", "bilirubin", "ioncalcium",
   "creatinine", "glucose", "hematocrit", "fibrinogen", "lipase", "hemoglobin",
   "lactate", "lymphs", "platelet", "pmn", "potassium", "ptt", "inr", "pt",
   "sodium", "tropi", "wbc", "alt", "ast", "alkphos"}

MinCol(a) ==
  CASE a = "albumin" -> "albumin_min" [] a = "amylase" -> "amylase_min"
    [] a = "bicarbonate" -> "bicarbonate_min" [] a = "bun" -> "bun_min"
    [] a = "cpk" -> "cpk_min" [] a = "bilirubin" -> "bilirubin_min"
    [] a = "ioncalcium" -> "ioncalcium_min" [] a = "creatinine" -> "creatinine_min"
    [] a = "glucose" -> "glucose_min" [] a = "hematocrit" -> "hematocrit_min"
    [] a = "fibrinogen" -> "fibrinogen_min" [] a = "lipase" -> "lipase_min"
    [] a = "hemoglobin" -> "hemoglobin_min" [] a = "lactate" -> "lactate_min"
    [] a = "lymphs" -> "lymphs_min" [] a = "platelet" -> "platelet_min"
    [] a = "pmn" -> "pmn_min" [] a = "potassium" -> "potassium_min"
    [] a = "ptt" -> "ptt_min" [] a = "inr" -> "inr_min" [] a = "pt" -> "pt_min"
    [] a = "sodium" -> "sodium_min" [] a = "tropi" -> "tropi_min"
    [] a = "wbc" -> "wbc_min" [] a = "alt" -> "alt_min" [] a = "ast" -> "ast_min"
    [] a = "alkphos" -> "alkphos_min"

MaxCol(a) ==
  CASE a = "albumin" -> "albumin_max" [] a = "amylase" -> "amylase_max"
    [] a = "bicarbonate" -> "bicarbonate_max" [] a = "bun" -> "bun_max"
    [] a = "cpk" -> "cpk_max" [] a = "bilirubin" -> "bilirubin_max"
    [] a = "ioncalcium" -> "ioncalcium_max" [] a = "creatinine" -> "creatinine_max"
    [] a = "glucose" -> "glucose_max" [] a = "hematocrit" -> "hematocrit_max"
    [] a = "fibrinogen" -> "fibrinogen_max" [] a = "lipase" -> "lipase_max"
    [] a = "hemoglobin" -> "hemoglobin_max" [] a = "lactate" -> "lactate_max"
    [] a = "lymphs" -> "lymphs_max" [] a = "platelet" -> "platelet_max"
    [] a = "pmn" -> "pmn_max" [] a = "potassium" -> "potassium_max"
    [] a = "ptt" -> "ptt_max" [] a = "inr" -> "inr_max" [] a = "pt" -> "pt_max"
    [] a = "sodium" -> "sodium_max" [] a = "tropi" -> "tropi_max"
    [] a = "wbc" -> "wbc_max" [] a = "alt" -> "alt_max" [] a = "ast" -> "ast_max"
    [] a = "alkphos" -> "alkphos_max"

FeatureColumns ==
  {"patientunitstayid", "hr_mean", "sbp_periodic_mean", "dbp_periodic_mean",
   "map_periodic_mean", "sbp_aperiodic_mean", "dbp_aperiodic_mean",
   "map_aperiodic_mean", "rr_mean", "spo2_mean", "tempc_mean",
   "abx", "vasopressor", "antiarr", "sedative", "diuretic",
   "blood_product_prbc", "blood_product_other", "antiinf"}
  \cup {MinCol(a) : a \in Analytes} \cup {MaxCol(a) : a \in Analytes}

MergedColumns == BaseColumns \cup FeatureColumns

\* Columns the database returns as text (object dtype); age is text until
\* the notebook casts it.
TextColumns ==
  {"age", "gender", "ethnicity", "unit_type", "unitadmitsource",
   "admit_diagnosis", "hospital_expiration"}

IdentifierColumns == {"patientunitstayid"}

\* The analytes of which the reducer keeps one of the two query columns as
\* it is (those with a column in lab_drop); glucose is left alone.
Unidirectional ==
  Analytes \ {"sodium", "potassium", "wbc", "pmn", "lymphs", "glucose"}

UnidirectionalMinCols == {MinCol(a) : a \in Unidirectional}

UnidirectionalMaxCols == {MaxCol(a) : a \in Unidirectional}

\* The columns whose values the model carries row by row; every other column
\* is carried in `columns` only.
Tracked ==
  UnidirectionalMinCols \cup UnidirectionalMaxCols \cup
  {"patientunitstayid", "age", "unit_los", "admit_diagnosis", "weight", "height",
   "sodium_min", "sodium_max", "potassium_min", "potassium_max",
   "wbc_min", "wbc_max", "pmn_min", "pmn_max", "lymphs_min", "lymphs_max",
   "gcs_eyes", "gcs_motor", "gcs_verbal", "hospital_expiration",
   "apache_prediction"}

\* The columns the notebook adds; the model carries their values too.
Derived == {"sodium", "potassium", "wbc", "pmn", "lym", "gcs"}

(***************************************************************************)
(* Input tables.  A row is [idx |-> pandas index label, v |-> values of the *)
(* tracked columns].  The rows of the joined table are drawn from RowKinds: *)
(* a row that passes every filter with unremarkable labs (BaseV) and rows   *)
(* that differ from it in one concern (one filter column, one analyte pair, *)
(* the neurological sub-scores, the outcome).  Lab pairs satisfy min <= max *)
(* when both are observed; -1 (Sentinel) and NaN both occur as "missing".   *)
(***************************************************************************)
BaseV ==
  [c \in Tracked |->
     CASE c = "patientunitstayid" -> Num(0)
       [] c = "age" -> Str("45")
       [] c = "unit_los" -> Num(Fx(1000))
       [] c = "admit_diagnosis" -> Str("UGIBLEED")
       [] c = "weight" -> Num(Fx(80))
       [] c = "height" -> Num(Fx(170))
       [] c = "sodium_min" -> Num(Fx(138))
       [] c = "sodium_max" -> Num(Fx(142))
       [] c = "potassium_min" -> Num(40)
       [] c = "potassium_max" -> Num(45)
       [] c = "wbc_min" -> Num(Fx(5))
       [] c = "wbc_max" -> Num(Fx(14))
       [] c = "pmn_min" -> Num(Fx(60))
       [] c = "pmn_max" -> Num(Fx(80))
       [] c = "lymphs_min" -> Num(Fx(25))
       [] c = "lymphs_max" -> Num(Fx(30))
       [] c = "gcs_eyes" -> Num(Fx(4))
       [] c = "gcs_motor" -> Num(Fx(6))
       [] c = "gcs_verbal" -> Num(Fx(5))
       [] c = "hospital_expiration" -> Str("ALIVE")
       [] c = "apache_prediction" -> Num(1)
       [] c \in UnidirectionalMinCols -> Num(Fx(10))
       [] c \in UnidirectionalMaxCols -> Num(Fx(20))]

Set(r, c, x) == [r EXCEPT ![c] = x]

W1(c, x) == Set(BaseV, c, x)

W2(c, x, d, y) == Set(W1(c, x), d, y)

\* BaseV with the five analyte pairs set: sodium, potassium, white cell
\* count, neutrophils, lymphocytes, each as <<min, max>>.
Labs(na, k, w, p, l) ==
  [BaseV EXCEPT !["sodium_min"] = na[1], !["sodium_max"] = na[2],
                !["potassium_min"] = k[1], !["potassium_max"] = k[2],
                !["wbc_min"] = w[1], !["wbc_max"] = w[2],
                !["pmn_min"] = p[1], !["pmn_max"] = p[2],
                !["lymphs_min"] = l[1], !["lymphs_max"] = l[2]]

\* r with the minimum and the maximum of every unidirectional analyte set.
Uni(r, lo, hi) ==
  [c \in DOMAIN r |->
     IF c \in UnidirectionalMinCols THEN lo
     ELSE IF c \in UnidirectionalMaxCols THEN hi
     ELSE r[c]]

Gcs3(r, e, m, vb) == [r EXCEPT !["gcs_eyes"] = e, !["gcs_motor"] = m, !["gcs_verbal"] = vb]

RowKinds ==
  << \* Rows that fail the age predicate: empty, minor, unparseable, NULL.
     W1("age", Str("")), W1("age", Str("17")), W1("age", Str("abc")),
     W1("age", NaN),
     BaseV,
     \* Rows that pass the filters, with the cases of the reductions: minimum
     \* deviating more, equal deviations, maximum deviating more, one or both
     \* bounds missing (NaN or the sentinel); thresholds met, at the
     \* boundary, missed.  The filter columns take their boundary values.
     [Gcs3(Uni(Labs(<<Num(Fx(128)), Num(Fx(150))>>, <<Num(30), Num(55)>>,
                    <<Num(15), Num(Fx(14))>>, <<Num(Fx(44)), Num(Fx(80))>>,
                    <<Num(Fx(19)), Num(Fx(30))>>),
               Num(Fx(7)), Num(Fx(7))),
           Num(Sentinel), Num(Sentinel), Num(Sentinel))
        EXCEPT !["age"] = Str("18"), !["hospital_expiration"] = Str("EXPIRED"),
               !["apache_prediction"] = Num(5)],
     [Gcs3(Uni(Labs(<<Num(Fx(130)), Num(Fx(150))>>, <<Num(32), Num(60)>>,
                    <<Num(Fx(2)), Num(Fx(14))>>, <<Num(Fx(45)), Num(Fx(80))>>,
                    <<Num(Fx(20)), Num(Fx(30))>>),
               NaN, Num(Fx(25))),
           NaN, Num(Fx(6)), Num(Fx(5)))
        EXCEPT !["age"] = Str("> 89"), !["weight"] = Num(Fx(300)),
               !["apache_prediction"] = Num(Sentinel)],
     [Gcs3(Uni(Labs(<<Num(Fx(133)), Num(Fx(152))>>, <<Num(25), Num(52)>>,
                    <<NaN, Num(Fx(14))>>, <<NaN, Num(Fx(80))>>, <<NaN, Num(Fx(30))>>),
               Num(Fx(3)), NaN),
           Num(Fx(4)), Num(Fx(6)), Num(Sentinel))
        EXCEPT !["unit_los"] = Num(Fx(240)), !["weight"] = Num(Fx(50)),
               !["admit_diagnosis"] = Str("LOWGIBLEED")],
     [Labs(<<NaN, Num(Fx(150))>>, <<NaN, Num(60)>>, <<Num(Fx(1)), NaN>>,
           <<Num(Fx(40)), NaN>>, <<Num(Fx(10)), NaN>>)
        EXCEPT !["height"] = Num(Fx(50)), !["admit_diagnosis"] = Str("UNKGIBLEED")],
     \* Rows that fail the length-of-stay or the diagnosis predicate.
     W1("unit_los", Num(Fx(239))), W1("unit_los", NaN),
     W1("admit_diagnosis", Str("S-UGIBLEED")),
     W1("admit_diagnosis", Str("S-LGIBLEED")),
     \* More rows that pass.
     [Labs(<<Num(Fx(130)), NaN>>, <<Num(30), NaN>>, <<Num(Sentinel), Num(Fx(14))>>,
           <<Num(Fx(50)), NaN>>, <<Num(Fx(25)), NaN>>)
        EXCEPT !["height"] = Num(Fx(250))],
     Uni(Labs(<<NaN, NaN>>, <<NaN, NaN>>, <<NaN, NaN>>, <<NaN, NaN>>, <<NaN, NaN>>),
         NaN, NaN),
     Labs(<<Num(Sentinel), Num(Fx(140))>>, <<Num(Sentinel), Num(45)>>,
          <<Num(Fx(5)), Num(Sentinel)>>, <<Num(Sentinel), Num(Fx(80))>>,
          <<Num(Sentinel), Num(Fx(30))>>),
     Uni(Labs(<<Num(Sentinel), Num(Sentinel)>>, <<Num(Sentinel), Num(Sentinel)>>,
              <<Num(Sentinel), Num(Sentinel)>>, <<Num(Sentinel), Num(Sentinel)>>,
              <<Num(Sentinel), Num(Sentinel)>>),
         Num(Sentinel), Num(Fx(20))),
     \* Rows that fail the weight or the height predicate.
     W1("weight", Num(Fx(49))), W1("weight", Num(Fx(301))),
     W1("weight", NaN), W1("weight", Num(Sentinel)),
     W1("height", Num(Fx(49))), W1("height", Num(Fx(251))),
     W1("height", NaN),
     \* Rows that fail several predicates.
     W2("age", Str("17"), "admit_diagnosis", Str("S-UGIBLEED")),
     W2("weight", Num(Fx(301)), "height", Num(Fx(49))),
     W2("unit_los", Num(Fx(239)), "weight", NaN) >>

NKinds == Len(RowKinds)

\* The stay identifier of the i-th row of the joined table: unique (the join key).
StayId(i) == Num(Fx(1000 + i))

\* The joined table built from the kinds ks[1..n]; pandas gives the merge
\* result the index 0..n-1.
MakeTable(ks) ==
  [i \in 1..Len(ks) |->
     [idx |-> i - 1,
      v |-> [RowKinds[ks[i]] EXCEPT !["patientunitstayid"] = StayId(i)]]]

\* Row order carries no meaning for any cell of the notebook, so the kinds
\* of an input table are taken in non-decreasing order; RowKinds alternates
\* rows that fail a filter with rows that pass, so that the index of a
\* filtered table has gaps at its start, in its middle and at its end.
KindSeqs ==
  UNION {{ks \in [1..n -> 1..NKinds] : \A i \in 1..n, j \in 1..n : i < j => ks[i] <= ks[j]}
         : n \in 0..MaxRows}

NoSplit ==
  [train_X |-> <<>>, test_X |-> <<>>, train_y |-> <<>>, test_y |-> <<>>,
   train_apache |-> <<>>, test_apache |-> <<>>]

NoFiles == [f \in {} |-> <<>>]

\* The materialized views of cell 3, in the order they are generated.
view_files == <<"./sql/vitalsfirstday.sql", "./sql/labsfirstday.sql",
                "./sql/treatmentfirstday.sql">>

\* The transaction status of the connection as psycopg2 sees it: no
\* transaction open, a transaction open, a transaction aborted by a failed
\* statement, or the connection lost.
ConStatus == {"idle", "intrans", "inerror", "closed"}

\* The state after cell 1: the connection is open, no table is loaded.
Init ==
  /\ pc = "call"
  /\ cohort = <<>>
  /\ columns = {}
  /\ label = <<>>
  /\ apache_pred = <<>>
  /\ split = NoSplit
  /\ files = NoFiles
  /\ con = "idle"
  /\ cur = "none"
  /\ exc = "none"
  /\ sent = <<>>
  /\ view = 1

(***************************************************************************)
(* Loader (cells 2-13).  generate_materialized_view reads a query file and *)
(* hands it to execute_query_safely, whose statements are the actions      *)
(* Cursor, Execute, Rollback and Close; pc is the statement about to run.  *)
(* `sent` is the list of statements the cursor of the current call was     *)
(* asked to execute, each with its outcome; `exc` is the exception in      *)
(* flight: none, the query's, or the rollback's (raised inside the except  *)
(* clause, it replaces the query's and carries it as its context).  An     *)
(* exception that leaves execute_query_safely is not caught by any caller: *)
(* the cell fails and the run stops (pc = "error").                        *)
(***************************************************************************)
\* cur = con.cursor(): raises InterfaceError on a closed connection.
Cursor ==
  /\ pc = "call"
  /\ IF con = "closed"
       THEN /\ exc' = "cursor"
            /\ pc' = "error"
            /\ UNCHANGED <<cur, sent>>
       ELSE /\ cur' = "open"
            /\ sent' = <<>>
            /\ pc' = "try"
            /\ UNCHANGED exc
  /\ UNCHANGED <<cohort, columns, label, apache_pred, split, files, con, view>>

\* try: cur.execute(sql).  The statement succeeds (psycopg2 has opened a
\* transaction for it), the server rejects it (the transaction is aborted),
\* or the connection is lost.
Execute ==
  /\ pc = "try"
  /\ \E outcome \in {"ok", "sql_error", "connection_lost"} :
       /\ sent' = Append(sent, [stmt |-> view_files[view], ok |-> outcome = "ok"])
       /\ con' = CASE outcome = "ok" -> "intrans"
                   [] outcome = "sql_error" -> "inerror"
                   [] outcome = "connection_lost" -> "closed"
       /\ exc' = IF outcome = "ok" THEN "none" ELSE "query"
       /\ pc' = IF outcome = "ok" THEN "finally" ELSE "except"
  /\ UNCHANGED <<cohort, columns, label, apache_pred, split, files, cur, view>>

\* Mutant: the except clause without its raise (the error is swallowed once
\* the rollback has succeeded).
Rollback_without_raise ==
  /\ pc = "except"
  /\ IF con = "closed"
       THEN /\ exc' = "rollback"
            /\ UNCHANGED con
            /\ sent' = Append(sent, [stmt |-> "rollback;", ok |-> FALSE])
       ELSE \E ok \in BOOLEAN :
              /\ con' = IF ok THEN "idle" ELSE "closed"
              /\ exc' = IF ok THEN "none" ELSE "rollback"
              /\ sent' = Append(sent, [stmt |-> "rollback;", ok |-> ok])
  /\ pc' = "finally"
  /\ UNCHANGED <<cohort, columns, label, apache_pred, split, files, cur, view>>

\* except: cur.execute('rollback;'); raise.  On a lost connection the
\* execute raises at once; on an aborted transaction the rollback succeeds
\* (the connection is idle again and `raise` re-raises the query's error)
\* or the connection is lost while it runs (the execute raises, `raise` is
\* not reached).
Rollback ==
  /\ pc = "except"
  /\ IF con = "closed"
       THEN /\ exc' = "rollback"
            /\ UNCHANGED con
            /\ sent' = Append(sent, [stmt |-> "rollback;", ok |-> FALSE])
       ELSE \E ok \in BOOLEAN :
              /\ con' = IF ok THEN "idle" ELSE "closed"
              /\ exc' = IF ok THEN "query" ELSE "rollback"
              /\ sent' = Append(sent, [stmt |-> "rollback;", ok |-> ok])
  /\ pc' = "finally"
  /\ UNCHANGED <<cohort, columns, label, apache_pred, split, files, cur, view>>

\* finally: cur.close(), which cannot fail for the unnamed cursor of a
\* synchronous connection; then the exception in flight propagates, or the
\* function returns and cell 3 goes on with the next view.
Close ==
  /\ pc = "finally"
  /\ cur' = "closed"
  /\ IF exc # "none"
       THEN /\ pc' = "error"
            /\ UNCHANGED view
       ELSE IF view < Len(view_files)
              THEN /\ view' = view + 1
                   /\ pc' = "call"
              ELSE /\ pc' = "views"
                   /\ UNCHANGED view
  /\ UNCHANGED <<cohort, columns, label, apache_pred, split, files, con, exc, sent>>

\* The two pd.read_sql_query calls and the inner merge on patientunitstayid:
\* the joined table is whatever the database holds.
Load ==
  /\ pc = "views"
  /\ cohort' \in {MakeTable(ks) : ks \in KindSeqs}
  /\ columns' = MergedColumns
  /\ pc' = "merged"
  /\ UNCHANGED <<label, apache_pred, split, files, con, cur, exc, sent, view>>

(***************************************************************************)
(* Table operations of pandas used by the notebook.                        *)
(***************************************************************************)
\* df.loc[mask] and df[mask] keep the rows whose mask is True, in order and
\* with their index labels: SelectSeq on the rows.

\* df.drop(names, axis=1) on the row values.
DropValues(table, names) ==
  [i \in DOMAIN table |->
     [idx |-> table[i].idx,
      v |-> [c \in (DOMAIN table[i].v) \ names |-> table[i].v[c]]]]

\* df.assign(name=array) / df[name] = series: the k-th value goes to the
\* k-th row (an array is positional; the series assigned by the notebook
\* has the table's own index and row order).
AssignValues(table, name, values) ==
  [i \in DOMAIN table |->
     [idx |-> table[i].idx,
      v |-> [c \in (DOMAIN table[i].v) \cup {name} |->
               IF c = name THEN values[i] ELSE table[i].v[c]]]]

(***************************************************************************)
(* Filter Stage (cells 17-26).                                             *)
(***************************************************************************)
\* float(s) for the strings of the model; a string outside the domain raises
\* ValueError.
FloatLiteral == [s \in {"17", "18", "45"} |->
                   CASE s = "17" -> 170 [] s = "18" -> 180 [] s = "45" -> 450]

Parseable(c) == c.t # "str" \/ c.s \in DOMAIN FloatLiteral

\* Series.astype('float64') on one cell: numbers stay, None becomes NaN,
\* strings are parsed.
AsFloat(c) == IF c.t = "str" THEN Num(FloatLiteral[c.s]) ELSE c

\* cohort.loc[cohort.age == '> 89', 'age'] = 93.0
ReplaceOver89(table) ==
  [i \in DOMAIN table |->
     IF table[i].v["age"] = Str("> 89")
       THEN [table[i] EXCEPT !.v["age"] = Num(AgeOver89)]
       ELSE table[i]]

\* cohort.age != ''
\* Mutant: the emptiness test written for strings only (a number fails it).
AgeNotEmpty_strings_only(r) == r.v["age"].t = "str" /\ r.v["age"].s # ""

AgeNotEmpty(r) == r.v["age"] # Str("")

\* Lines 348-349: the placeholder substituted, the rows with an empty age dropped.
AgeCleaned(table) == SelectSeq(ReplaceOver89(table), AgeNotEmpty)

\* Line 350 succeeds iff every remaining age is parseable.
AgeCastable(table) == \A i \in DOMAIN AgeCleaned(table) : Parseable(AgeCleaned(table)[i].v["age"])

AgeCast(table) ==
  [i \in DOMAIN AgeCleaned(table) |->
     [AgeCleaned(table)[i] EXCEPT !.v["age"] = AsFloat(@)]]

AgePred(r) == GeC(r.v["age"], MinAge)

LosPred(r) == GeC(r.v["unit_los"], MinLos)

DxPred(r) == ~(r.v["admit_diagnosis"].t = "str" /\ r.v["admit_diagnosis"].s \in SurgicalBleed)

\* Mutant: the upper weight bound left out.
WeightPred_no_upper(r) == GeC(r.v["weight"], MinWeight)

WeightPred(r) == GeC(r.v["weight"], MinWeight) /\ LeC(r.v["weight"], MaxWeight)

HeightPred(r) == LeC(r.v["height"], MaxHeight) /\ GeC(r.v["height"], MinHeight)

\* The five filter cells as table transformations (lines 351, 379, 407, 442, 470).
FilterAge(table) == SelectSeq(table, AgePred)

FilterLos(table) == SelectSeq(table, LosPred)

\* Mutant: the surgical rows found by position and dropped by index label
\* (cohort.drop(np.where(mask)[0])).
FilterDx_positional(table) ==
  SelectSeq(table, LAMBDA r : ~\E k \in DOMAIN table : ~DxPred(table[k]) /\ r.idx = k - 1)

FilterDx(table) == SelectSeq(table, DxPred)

FilterWeight(table) == SelectSeq(table, WeightPred)

FilterHeight(table) == SelectSeq(table, HeightPred)

\* The whole stage on a table whose ages can be cast.
FilterStage(table) ==
  FilterHeight(FilterWeight(FilterDx(FilterLos(FilterAge(AgeCast(table))))))

AgeNormalize ==
  /\ pc = "merged"
  /\ IF AgeCastable(cohort)
       THEN /\ cohort' = AgeCast(cohort)
            /\ pc' = "age_cast"
       ELSE /\ cohort' = AgeCleaned(cohort)
            /\ pc' = "error"
  /\ UNCHANGED <<columns, label, apache_pred, split, files, con, cur, exc, sent, view>>

AgeFilter ==
  /\ pc = "age_cast"
  /\ cohort' = FilterAge(cohort)
  /\ pc' = "age"
  /\ UNCHANGED <<columns, label, apache_pred, split, files, con, cur, exc, sent, view>>

LosFilter ==
  /\ pc = "age"
  /\ cohort' = FilterLos(cohort)
  /\ pc' = "los"
  /\ UNCHANGED <<columns, label, apache_pred, split, files, con, cur, exc, sent, view>>

DxFilter ==
  /\ pc = "los"
  /\ cohort' = FilterDx(cohort)
  /\ pc' = "dx"
  /\ UNCHANGED <<columns, label, apache_pred, split, files, con, cur, exc, sent, view>>

WeightFilter ==
  /\ pc = "dx"
  /\ cohort' = FilterWeight(cohort)
  /\ pc' = "weight"
  /\ UNCHANGED <<columns, label, apache_pred, split, files, con, cur, exc, sent, view>>

HeightFilter ==
  /\ pc = "weight"
  /\ cohort' = FilterHeight(cohort)
  /\ pc' = "filtered"
  /\ UNCHANGED <<columns, label, apache_pred, split, files, con, cur, exc, sent, view>>

\* DataFrame.to_csv(path, index=False): the rows' values, without the index.
ToCsv(table) == [i \in DOMAIN table |-> table[i].v]

SaveExtracted ==
  /\ pc = "filtered"
  /\ files' = ("extracted_cohort_all.csv" :> ToCsv(cohort)) @@ files
  /\ pc' = "extracted"
  /\ UNCHANGED <<cohort, columns, label, apache_pred, split, con, cur, exc, sent, view>>

(***************************************************************************)
(* Abnormal-Value Reducer (cell 29).                                       *)
(***************************************************************************)
\* df.drop(names, axis=1) raises KeyError unless every name is a column.
CanDrop(names) == names \subseteq columns

\* Mutant: the list names bicarbonate_min where the notebook names
\* bicarbonate_max.
lab_drop_bicarbonate_min ==
  {"bicarbonate_min", "platelet_max", "hemoglobin_max", "fibrinogen_max",
   "hematocrit_max", "albumin_max", "ioncalcium_max", "creatinine_min",
   "alt_min", "ast_min", "alkphos_min", "bun_min", "bilirubin_min", "pt_min",
   "ptt_min", "inr_min", "lactate_min", "tropi_min", "amylase_min",
   "lipase_min", "cpk_min"}

lab_drop ==
  {"bicarbonate_max", "platelet_max", "hemoglobin_max", "fibrinogen_max",
   "hematocrit_max", "albumin_max", "ioncalcium_max", "creatinine_min",
   "alt_min", "ast_min", "alkphos_min", "bun_min", "bilirubin_min", "pt_min",
   "ptt_min", "inr_min", "lactate_min", "tropi_min", "amylase_min",
   "lipase_min", "cpk_min"}

LabDrop ==
  /\ pc = "extracted"
  /\ IF CanDrop(lab_drop)
       THEN /\ cohort' = DropValues(cohort, lab_drop)
            /\ columns' = columns \ lab_drop
            /\ pc' = "lab_dropped"
       ELSE /\ pc' = "error"
            /\ UNCHANGED <<cohort, columns>>
  /\ UNCHANGED <<label, apache_pred, split, files, con, cur, exc, sent, view>>

\* check = abs(min - low) >= abs(max - high); out[check] = min[check];
\* out[~check] = max[~check].  The two masks partition the rows, so every
\* slot of the np.empty array is written.
\* Mutant: the deviations compared with > (equal deviations select the maximum).
BidirectionalCheck_strict(m, M, low, high) ==
  IsNum(m) /\ IsNum(M) /\ AbsC(SubC(m, low)).v > AbsC(SubC(M, high)).v

BidirectionalCheck(m, M, low, high) == GeCC(AbsC(SubC(m, low)), AbsC(SubC(M, high)))

Bidirectional(m, M, low, high) == IF BidirectionalCheck(m, M, low, high) THEN m ELSE M

\* check = min < threshold; out[check] = min[check]; out[~check] = max[~check].
\* Mutant: the threshold compared with <=.
ThresholdCheck_inclusive(m, threshold) == LeC(m, threshold)

ThresholdCheck(m, threshold) == LtC(m, threshold)

ThresholdSelect(m, M, threshold) == IF ThresholdCheck(m, threshold) THEN m ELSE M

\* The np.empty array of a bidirectional analyte after its two masked writes.
BidirectionalArray(table, lo, hi, low, high) ==
  [i \in DOMAIN table |-> Bidirectional(table[i].v[lo], table[i].v[hi], low, high)]

\* The np.empty array of a threshold-selected count after its two masked writes.
ThresholdArray(table, lo, hi, threshold) ==
  [i \in DOMAIN table |-> ThresholdSelect(table[i].v[lo], table[i].v[hi], threshold)]

ReduceSodium ==
  /\ pc = "lab_dropped"
  /\ cohort' = DropValues(
                 AssignValues(cohort, "sodium",
                              BidirectionalArray(cohort, "sodium_min", "sodium_max",
                                                 SodiumLow, SodiumHigh)),
                 {"sodium_min", "sodium_max"})
  /\ columns' = (columns \cup {"sodium"}) \ {"sodium_min", "sodium_max"}
  /\ pc' = "sodium"
  /\ UNCHANGED <<label, apache_pred, split, files, con, cur, exc, sent, view>>

ReducePotassium ==
  /\ pc = "sodium"
  /\ cohort' = DropValues(
                 AssignValues(cohort, "potassium",
                              BidirectionalArray(cohort, "potassium_min", "potassium_max",
                                                 PotassiumLow, PotassiumHigh)),
                 {"potassium_min", "potassium_max"})
  /\ columns' = (columns \cup {"potassium"}) \ {"potassium_min", "potassium_max"}
  /\ pc' = "potassium"
  /\ UNCHANGED <<label, apache_pred, split, files, con, cur, exc, sent, view>>

\* Lines 530-550: the three masks are taken first, from columns that the
\* later assignments and drops do not touch.
ReduceCounts ==
  /\ pc = "potassium"
  /\ LET wbc == ThresholdArray(cohort, "wbc_min", "wbc_max", WbcThreshold)
         pmn == ThresholdArray(cohort, "pmn_min", "pmn_max", PmnThreshold)
         lym == ThresholdArray(cohort, "lymphs_min", "lymphs_max", LymThreshold)
         t1 == DropValues(AssignValues(cohort, "wbc", wbc), {"wbc_min", "wbc_max"})
         t2 == DropValues(AssignValues(t1, "pmn", pmn), {"pmn_min", "pmn_max"})
     IN  cohort' = DropValues(AssignValues(t2, "lym", lym), {"lymphs_min", "lymphs_max"})
  /\ columns' = (columns \cup {"wbc", "pmn", "lym"})
                  \ {"wbc_min", "wbc_max", "pmn_min", "pmn_max", "lymphs_min", "lymphs_max"}
  /\ pc' = "reduced"
  /\ UNCHANGED <<label, apache_pred, split, files, con, cur, exc, sent, view>>

(***************************************************************************)
(* Feature Curator (cells 31-39).                                          *)
(***************************************************************************)
\* DataFrame.replace(-1, np.nan) on one cell; a string never equals -1.
ReplaceSentinel(c) == IF IsNum(c) /\ c.v = Sentinel THEN NaN ELSE c

\* The replacement is over every column of the table.
ReplaceAll(table) ==
  [i \in DOMAIN table |->
     [idx |-> table[i].idx,
      v |-> [c \in DOMAIN table[i].v |-> ReplaceSentinel(table[i].v[c])]]]

redundant_drop ==
  {"sbp_periodic_mean", "dbp_periodic_mean", "map_periodic_mean", "tempc_mean",
   "apache_pao2", "apache_fio2", "apache_o2ratio", "hospital_los",
   "unitadmitsource"}

SentinelReplace ==
  /\ pc = "reduced"
  /\ IF CanDrop(redundant_drop)
       THEN /\ cohort' = DropValues(ReplaceAll(cohort), redundant_drop)
            /\ columns' = columns \ redundant_drop
            /\ pc' = "normalized"
       ELSE /\ cohort' = ReplaceAll(cohort)
            /\ pc' = "error"
            /\ UNCHANGED columns
  /\ UNCHANGED <<label, apache_pred, split, files, con, cur, exc, sent, view>>

SaveCohort ==
  /\ pc = "normalized"
  /\ files' = ("cohort.csv" :> ToCsv(cohort)) @@ files
  /\ pc' = "saved"
  /\ UNCHANGED <<cohort, columns, label, apache_pred, split, con, cur, exc, sent, view>>

apache_drop == {"apache_score", "unit_los"}

DropApache ==
  /\ pc = "saved"
  /\ IF CanDrop(apache_drop)
       THEN /\ cohort' = DropValues(cohort, apache_drop)
            /\ columns' = columns \ apache_drop
            /\ pc' = "apache_dropped"
       ELSE /\ pc' = "error"
            /\ UNCHANGED <<cohort, columns>>
  /\ UNCHANGED <<label, apache_pred, split, files, con, cur, exc, sent, view>>

\* The four drop lists of cell 36; they are disjoint, so the four drops
\* succeed together or the cell raises KeyError.
feature_drop ==
  {"height", "weight", "gender", "ethnicity", "unit_type", "diabetes", "copd",
   "cad", "ckd", "afib", "cirrhosis", "hepatic_failure", "sedative", "diuretic",
   "antiinf", "apache_midur", "sodium", "glucose_min"}
  \cup {"gcs_meds"}
  \cup {"sbp_aperiodic_mean", "dbp_aperiodic_mean", "apache_ventday1", "alt_max",
        "hematocrit_min", "lym"}
  \cup {"tropi_max", "fibrinogen_min", "ioncalcium_min", "cpk_max",
        "amylase_max", "lipase_max"}

DropFeatures ==
  /\ pc = "apache_dropped"
  /\ IF CanDrop(feature_drop)
       THEN /\ cohort' = DropValues(cohort, feature_drop)
            /\ columns' = columns \ feature_drop
            /\ pc' = "pruned"
       ELSE /\ pc' = "error"
            /\ UNCHANGED <<cohort, columns>>
  /\ UNCHANGED <<label, apache_pred, split, files, con, cur, exc, sent, view>>

\* The categories pd.get_dummies finds: the distinct non-missing values of
\* the column, sorted.
Categories(table) ==
  SelectSeq(DxOrder,
            LAMBDA d : \E i \in DOMAIN table : table[i].v["admit_diagnosis"] = Str(d))

\* drop_first=True: every category but the first gets an indicator column.
\* Mutant: drop_first left out.
DummyCategories_keep_first(table) == Categories(table)

DummyCategories(table) ==
  IF Categories(table) = <<>> THEN <<>> ELSE Tail(Categories(table))

DummyColumns(table) ==
  {AdxName(DummyCategories(table)[k]) : k \in DOMAIN DummyCategories(table)}

\* The indicator of category d on row r.
Indicator(r, d) == IF r.v["admit_diagnosis"] = Str(d) THEN Num(Fx(1)) ELSE Num(Fx(0))

\* pd.concat([cohort, adx_dummies], axis=1) followed by the drop of the
\* categorical column; both frames have the same index.
WithDummies(table) ==
  [i \in DOMAIN table |->
     [idx |-> table[i].idx,
      v |-> [c \in ((DOMAIN table[i].v) \cup DummyColumns(table)) \ {"admit_diagnosis"} |->
               IF c \in DummyColumns(table)
                 THEN Indicator(table[i],
                                CHOOSE d \in {DxOrder[k] : k \in DOMAIN DxOrder} :
                                  AdxName(d) = c)
                 ELSE table[i].v[c]]]]

OneHot ==
  /\ pc = "pruned"
  /\ cohort' = WithDummies(cohort)
  /\ columns' = (columns \cup DummyColumns(cohort)) \ {"admit_diagnosis"}
  /\ pc' = "encoded"
  /\ UNCHANGED <<label, apache_pred, split, files, con, cur, exc, sent, view>>

gcs_net(r) == AddC(AddC(r.v["gcs_eyes"], r.v["gcs_motor"]), r.v["gcs_verbal"])

gcs_parts == {"gcs_eyes", "gcs_motor", "gcs_verbal"}

Gcs ==
  /\ pc = "encoded"
  /\ cohort' = DropValues(AssignValues(cohort, "gcs",
                                       [i \in DOMAIN cohort |-> gcs_net(cohort[i])]),
                          gcs_parts)
  /\ columns' = (columns \cup {"gcs"}) \ gcs_parts
  /\ pc' = "curated"
  /\ UNCHANGED <<label, apache_pred, split, files, con, cur, exc, sent, view>>

(***************************************************************************)
(* Split Writer (cells 41-45).                                             *)
(***************************************************************************)
\* (cohort.hospital_expiration == 'EXPIRED').astype('int'): a Series on the
\* table's index.
LabelOf(r) == IF r.v["hospital_expiration"] = Str("EXPIRED") THEN 1 ELSE 0

outcome_cols == {"hospital_expiration", "apache_prediction"}

SeparateLabel ==
  /\ pc = "curated"
  /\ label' = [i \in DOMAIN cohort |-> [idx |-> cohort[i].idx, v |-> LabelOf(cohort[i])]]
  /\ apache_pred' = [i \in DOMAIN cohort |->
                       [idx |-> cohort[i].idx, v |-> cohort[i].v["apache_prediction"]]]
  /\ IF CanDrop(outcome_cols)
       THEN /\ cohort' = DropValues(cohort, outcome_cols)
            /\ columns' = columns \ outcome_cols
            /\ pc' = "separated"
       ELSE /\ pc' = "error"
            /\ UNCHANGED <<cohort, columns>>
  /\ UNCHANGED <<split, files, con, cur, exc, sent, view>>

\* train_test_split(test_size=0.20): n_test = ceil(0.2 * n), n_train = n - n_test.
NTest(n) == (n + 4) \div 5

NTrain(n) == n - NTest(n)

Classes(y) == {y[i].v : i \in DOMAIN y}

ClassCount(y, c, S) == Cardinality({i \in S : y[i].v = c})

\* The cases in which the stratified split raises ValueError: an empty train
\* set, a class with a single member, fewer train or test rows than classes.
SplitOk(y) ==
  /\ NTrain(Len(y)) >= 1
  /\ \A c \in Classes(y) : ClassCount(y, c, DOMAIN y) >= 2
  /\ NTrain(Len(y)) >= Cardinality(Classes(y))
  /\ NTest(Len(y)) >= Cardinality(Classes(y))

Perms(n) == {p \in [1..n -> 1..n] : \A i \in 1..n, j \in 1..n : p[i] = p[j] => i = j}

\* Stratification: each class has in the test set its share of the n_test
\* rows, rounded down or up.
Stratified(y, test) ==
  \A c \in Classes(y) :
    LET d == Len(y) * ClassCount(y, c, test) - NTest(Len(y)) * ClassCount(y, c, DOMAIN y)
    IN  -Len(y) < d /\ d < Len(y)

\* The positions of the train rows and of the test rows under the shuffle p.
TrainIdx(p) == [k \in 1..NTrain(Len(p)) |-> p[k]]

TestIdx(p) == [k \in 1..NTest(Len(p)) |-> p[NTrain(Len(p)) + k]]

\* Positional indexing of one array by an index array.
Take(arr, ix) == [k \in DOMAIN ix |-> arr[ix[k]]]

\* The six arrays train_test_split returns: every input array is indexed by
\* the same train and test index arrays.
\* Mutant: the label and the prediction cut at n_train without the shuffle.
SplitArrays_labels_unshuffled(X, y, a, p) ==
  [train_X |-> Take(X, TrainIdx(p)), test_X |-> Take(X, TestIdx(p)),
   train_y |-> SubSeq(y, 1, NTrain(Len(p))),
   test_y |-> SubSeq(y, NTrain(Len(p)) + 1, Len(p)),
   train_apache |-> SubSeq(a, 1, NTrain(Len(p))),
   test_apache |-> SubSeq(a, NTrain(Len(p)) + 1, Len(p))]

SplitArrays(X, y, a, p) ==
  [train_X |-> Take(X, TrainIdx(p)), test_X |-> Take(X, TestIdx(p)),
   train_y |-> Take(y, TrainIdx(p)), test_y |-> Take(y, TestIdx(p)),
   train_apache |-> Take(a, TrainIdx(p)), test_apache |-> Take(a, TestIdx(p))]

\* The shuffle is drawn by a seeded generator (random_state=42): one fixed
\* permutation per input size and labels, not known to the notebook; any
\* stratified permutation is possible.
Split ==
  /\ pc = "separated"
  /\ IF SplitOk(label)
       THEN /\ \E p \in Perms(Len(cohort)) :
                 /\ Stratified(label, {p[NTrain(Len(p)) + k] : k \in 1..NTest(Len(p))})
                 /\ split' = SplitArrays(cohort, label, apache_pred, p)
            /\ pc' = "split"
       ELSE /\ pc' = "error"
            /\ UNCHANGED split
  /\ UNCHANGED <<cohort, columns, label, apache_pred, files, con, cur, exc, sent, view>>

\* Series.to_csv(path, index=False, header=True): the values, without the index.
SeriesToCsv(y) == [i \in DOMAIN y |-> y[i].v]

WriteOutputs ==
  /\ pc = "split"
  /\ files' = ("train_X.csv" :> ToCsv(split.train_X))
                @@ ("train_y.csv" :> SeriesToCsv(split.train_y))
                @@ ("train_apache.csv" :> SeriesToCsv(split.train_apache))
                @@ ("test_X.csv" :> ToCsv(split.test_X))
                @@ ("test_y.csv" :> SeriesToCsv(split.test_y))
                @@ ("test_apache.csv" :> SeriesToCsv(split.test_apache))
                @@ files
  /\ pc' = "done"
  /\ UNCHANGED <<cohort, columns, label, apache_pred, split, con, cur, exc, sent, view>>

Next ==
  \/ Cursor
  \/ Execute
  \/ Rollback
  \/ Close
  \/ Load
  \/ AgeNormalize
  \/ AgeFilter
  \/ LosFilter
  \/ DxFilter
  \/ WeightFilter
  \/ HeightFilter
  \/ SaveExtracted
  \/ LabDrop
  \/ ReduceSodium
  \/ ReducePotassium
  \/ ReduceCounts
  \/ SentinelReplace
  \/ SaveCohort
  \/ DropApache
  \/ DropFeatures
  \/ OneHot
  \/ Gcs
  \/ SeparateLabel
  \/ Split
  \/ WriteOutputs

Spec == Init /\ [][Next]_vars

(***************************************************************************)
(* Properties.  The filtered table is read back from its checkpoint file   *)
(* (extracted_cohort_all.csv), whose rows keep every original column; a    *)
(* row of a later table is matched to it by the stay identifier.           *)
(***************************************************************************)
Rows(seq) == {seq[k] : k \in DOMAIN seq}

HasExtracted == "extracted_cohort_all.csv" \in DOMAIN files

Extracted == files["extracted_cohort_all.csv"]

Orig(r) == CHOOSE o \in Rows(Extracted) : o["patientunitstayid"] = r.v["patientunitstayid"]

\* A value that stands for "not recorded": the missing marker or the sentinel.
Missing(c) == IsNaN(c) \/ c = Num(Sentinel)

Present(c) == IsNum(c) /\ c.v # Sentinel

Dev(x, bound) == IF x >= bound THEN x - bound ELSE bound - x

\* The columns whose values the next reducer step compares.
ComparedNext ==
  CASE pc = "lab_dropped" -> {"sodium_min", "sodium_max"}
    [] pc = "sodium" -> {"potassium_min", "potassium_max"}
    [] pc = "potassium" -> {"wbc_min", "pmn_min", "lymphs_min"}
    [] OTHER -> {}

\* C1: whenever a reducer comparison is about to read the table, the
\* sentinel -1 has already been replaced by the missing marker: no compared
\* column holds -1.
C1_SentinelReplacedBeforeComparisons ==
  \A i \in DOMAIN cohort : \A c \in ComparedNext : cohort[i].v[c] # Num(Sentinel)

\* C2: the feature tables written by the split hold no categorical column
\* and no identifier column; patientunitstayid is not among their columns.
C2_NoIdentifierOrCategoricalFeature ==
  pc = "done" =>
    /\ columns \cap (IdentifierColumns \cup (TextColumns \ {"age"})) = {}
    /\ \A f \in {"train_X.csv", "test_X.csv"} : \A r \in Rows(files[f]) :
         "patientunitstayid" \notin DOMAIN r

\* The diagnosis categories present in the filtered table, and the least
\* of them in string order (none when the table is empty).
PresentDx == {d \in Rows(DxOrder) : \E o \in Rows(Extracted) : o["admit_diagnosis"] = Str(d)}

DxRank(d) == CHOOSE k \in DOMAIN DxOrder : DxOrder[k] = d

ReferenceDx == {d \in PresentDx : \A e \in PresentDx : DxRank(d) <= DxRank(e)}

IndicatorSum(r) ==
  LET cs == (DOMAIN r.v) \cap AdxColumns
      RECURSIVE Sum(_)
      Sum(S) == IF S = {} THEN 0
                ELSE LET c == CHOOSE x \in S : TRUE IN r.v[c].v + Sum(S \ {c})
  IN  Sum(cs)

\* C3 as stated: the encoding yields exactly 4 indicator columns, and every
\* row's indicators sum to 0 or 1.
C3_FourIndicatorColumns ==
  pc = "encoded" =>
    /\ Cardinality(columns \cap AdxColumns) = 4
    /\ \A i \in DOMAIN cohort : IndicatorSum(cohort[i]) \in {Fx(0), Fx(1)}

\* C3 amended: the encoding yields one indicator column for every diagnosis
\* category present in the filtered table except the first in string order
\* (the reference), hence at most 2 columns, the two surgical categories
\* having been filtered out; every row's indicators sum to 0 (reference
\* category) or 1 (any other category).
C3_IndicatorsOfPresentCategories ==
  pc = "encoded" =>
    /\ columns \cap AdxColumns = {AdxName(d) : d \in PresentDx \ ReferenceDx}
    /\ Cardinality(columns \cap AdxColumns) <= 2
    /\ \A i \in DOMAIN cohort :
         /\ (DOMAIN cohort[i].v) \cap AdxColumns = columns \cap AdxColumns
         /\ IndicatorSum(cohort[i]) =
              IF Orig(cohort[i])["admit_diagnosis"].s \in ReferenceDx THEN Fx(0) ELSE Fx(1)

C3_Witness ==
  /\ pc = "encoded"
  /\ Cardinality(columns \cap AdxColumns) = 2
  /\ \E i \in DOMAIN cohort : IndicatorSum(cohort[i]) = Fx(0)
  /\ \E i \in DOMAIN cohort : IndicatorSum(cohort[i]) = Fx(1)

\* The analytes the reducer computes: <<reduced column, min column, max column>>.
ReducedAnalytes ==
  { <<"sodium", "sodium_min", "sodium_max">>,
    <<"potassium", "potassium_min", "potassium_max">>,
    <<"wbc", "wbc_min", "wbc_max">>,
    <<"pmn", "pmn_min", "pmn_max">>,
    <<"lym", "lymphs_min", "lymphs_max">> }

\* C4: after reduction and sentinel replacement, a reduced value is missing
\* whenever its minimum or its maximum observation was missing; and the
\* composite neurological score is missing whenever a sub-score was missing.
C4_MissingPropagates ==
  /\ pc = "normalized" =>
       \A i \in DOMAIN cohort : \A a \in ReducedAnalytes :
         (Missing(Orig(cohort[i])[a[2]]) \/ Missing(Orig(cohort[i])[a[3]]))
           => IsNaN(cohort[i].v[a[1]])
  /\ pc = "curated" =>
       \A i \in DOMAIN cohort :
         (\E c \in gcs_parts : Missing(Orig(cohort[i])[c])) => IsNaN(cohort[i].v["gcs"])

\* The bidirectional rule on two observed values m, M (integers).
MostDeviating(m, M, low, high) == IF Dev(m, low) >= Dev(M, high) THEN m ELSE M

\* C5: whenever the reduced sodium (potassium) column exists, a row whose
\* minimum m and maximum M were both observed holds m if
\* |m - 135| >= |M - 145| (|m - 3.5| >= |M - 5.0|) and M otherwise.
C5_BidirectionalSelection ==
  HasExtracted =>
    \A i \in DOMAIN cohort :
      LET r == cohort[i]
          o == Orig(r)
      IN  /\ ("sodium" \in DOMAIN r.v /\ Present(o["sodium_min"]) /\ Present(o["sodium_max"]))
               => r.v["sodium"] = Num(MostDeviating(o["sodium_min"].v, o["sodium_max"].v, 1350, 1450))
          /\ ("potassium" \in DOMAIN r.v /\ Present(o["potassium_min"])
                /\ Present(o["potassium_max"]))
               => r.v["potassium"] =
                    Num(MostDeviating(o["potassium_min"].v, o["potassium_max"].v, 35, 50))

\* Both analytes reduced; a row with equal sodium deviations kept its minimum
\* and a row with the larger potassium deviation above kept its maximum.
C5_Witness ==
  /\ pc = "potassium"
  /\ \E i \in DOMAIN cohort :
       LET o == Orig(cohort[i])
       IN  /\ Present(o["sodium_min"]) /\ Present(o["sodium_max"])
           /\ o["sodium_min"] # o["sodium_max"]
           /\ Dev(o["sodium_min"].v, 1350) = Dev(o["sodium_max"].v, 1450)
           /\ cohort[i].v["sodium"] = o["sodium_min"]
  /\ \E i \in DOMAIN cohort :
       LET o == Orig(cohort[i])
       IN  /\ Present(o["potassium_min"]) /\ Present(o["potassium_max"])
           /\ Dev(o["potassium_min"].v, 35) < Dev(o["potassium_max"].v, 50)
           /\ cohort[i].v["potassium"] = o["potassium_max"]
           /\ o["potassium_min"] # o["potassium_max"]

\* The threshold rule: the minimum when it is a number below the threshold,
\* the maximum otherwise.
BelowSelects(m, M, threshold) == IF IsNum(m) /\ m.v < threshold THEN m ELSE M

\* C6: at the end of the reducer, every row's white cell count is its
\* minimum if the minimum is < 2 and its maximum otherwise; likewise the
\* neutrophil percentage with 45 and the lymphocyte percentage with 20.
C6_ThresholdSelection ==
  pc = "reduced" =>
    \A i \in DOMAIN cohort :
      LET r == cohort[i]
          o == Orig(r)
      IN  /\ r.v["wbc"] = BelowSelects(o["wbc_min"], o["wbc_max"], 20)
          /\ r.v["pmn"] = BelowSelects(o["pmn_min"], o["pmn_max"], 450)
          /\ r.v["lym"] = BelowSelects(o["lymphs_min"], o["lymphs_max"], 200)

\* A row below the threshold kept its minimum and a row exactly at the
\* threshold kept its maximum.
C6_Witness ==
  /\ pc = "reduced"
  /\ \E i \in DOMAIN cohort :
       LET o == Orig(cohort[i])
       IN  /\ Present(o["wbc_min"]) /\ o["wbc_min"].v < 20
           /\ cohort[i].v["wbc"] = o["wbc_min"] /\ o["wbc_min"] # o["wbc_max"]
  /\ \E i \in DOMAIN cohort :
       LET o == Orig(cohort[i])
       IN  /\ o["pmn_min"] = Num(450) /\ o["pmn_max"] # o["pmn_min"]
           /\ cohort[i].v["pmn"] = o["pmn_max"]

\* C7: every row of the table the Filter Stage produces has a numeric age
\* >= 18, a unit length of stay >= 240, a diagnosis that is not a surgical
\* bleed, 50 <= weight <= 300 and 50 <= height <= 250; no such value is
\* missing.  The checkpoint file holds the same rows.
FilterContract(v) ==
  /\ IsNum(v["age"]) /\ v["age"].v >= Fx(18)
  /\ IsNum(v["unit_los"]) /\ v["unit_los"].v >= Fx(240)
  /\ v["admit_diagnosis"].t = "str"
  /\ v["admit_diagnosis"].s \notin {"S-UGIBLEED", "S-LGIBLEED"}
  /\ IsNum(v["weight"]) /\ Fx(50) <= v["weight"].v /\ v["weight"].v <= Fx(300)
  /\ IsNum(v["height"]) /\ Fx(50) <= v["height"].v /\ v["height"].v <= Fx(250)

C7_FilteredRowsSatisfyPredicates ==
  /\ pc = "filtered" => \A i \in DOMAIN cohort : FilterContract(cohort[i].v)
  /\ HasExtracted => \A o \in Rows(Extracted) : FilterContract(o)

\* The stage kept a row at an upper bound and dropped the row before it.
C7_Witness ==
  /\ pc = "filtered"
  /\ \E i \in DOMAIN cohort :
       /\ cohort[i].v["weight"] = Num(Fx(300))
       /\ cohort[i].v["age"] = Num(Fx(93))
       /\ cohort[i].idx > i - 1

\* C8: the Filter Stage run again on the table it produced (placeholder
\* substitution, empty-age drop, cast, and the five predicates) succeeds and
\* returns that table unchanged.
C8_FilterIdempotent ==
  pc = "filtered" => AgeCastable(cohort) /\ FilterStage(cohort) = cohort

\* The first run removed rows and kept some.
C8_Witness ==
  /\ pc = "filtered"
  /\ Len(cohort) >= 2
  /\ \E i \in DOMAIN cohort : cohort[i].idx # i - 1

\* The five predicate cells, numbered in the notebook's order.
ApplyFilter(k, table) ==
  CASE k = 1 -> FilterAge(table)
    [] k = 2 -> FilterLos(table)
    [] k = 3 -> FilterDx(table)
    [] k = 4 -> FilterWeight(table)
    [] k = 5 -> FilterHeight(table)

RECURSIVE ApplyFilters(_, _)
ApplyFilters(order, table) ==
  IF order = <<>> THEN table
  ELSE ApplyFilters(Tail(order), ApplyFilter(Head(order), table))

NotebookOrder == <<1, 2, 3, 4, 5>>

\* The orderings of a set of filters, as sequences.
RECURSIVE Orderings(_)
Orderings(S) ==
  IF S = {} THEN {<<>>}
  ELSE UNION {{<<x>> \o rest : rest \in Orderings(S \ {x})} : x \in S}

FilterOrders == Orderings(Rows(NotebookOrder))

\* Every step of the order leaves at most as many rows as it found, and
\* the rows left at the end are those of `expected`.
RECURSIVE ShrinksTo(_, _, _)
ShrinksTo(order, table, expected) ==
  IF order = <<>> THEN Rows(table) = expected
  ELSE LET next == ApplyFilter(Head(order), table)
       IN  Len(next) <= Len(table) /\ ShrinksTo(Tail(order), next, expected)

\* C9: on the table with its ages normalized, the five predicates applied
\* in any order leave the same set of rows as the notebook's order, and no
\* step of any order increases the row count.
C9_FilterOrderInsensitive ==
  pc = "age_cast" =>
    LET expected == Rows(ApplyFilters(NotebookOrder, cohort))
    IN  \A order \in FilterOrders : ShrinksTo(order, cohort, expected)

\* A table of which the predicates remove a row that is not the first and
\* keep one.
C9_Witness ==
  /\ pc = "age_cast"
  /\ Len(cohort) >= 2
  /\ \E i \in DOMAIN cohort : i > 1 /\ ~DxPred(cohort[i])
  /\ \E i \in DOMAIN cohort : ~WeightPred(cohort[i])
  /\ ApplyFilters(NotebookOrder, cohort) # <<>>

\* The stay identifiers of the rows of a written feature file.
FileIds(f) == {files[f][k]["patientunitstayid"] : k \in DOMAIN files[f]}

\* The label and the benchmark prediction the notebook derives for the
\* stay with identifier id.
OrigById(id) == CHOOSE o \in Rows(Extracted) : o["patientunitstayid"] = id

ExpectedLabel(id) == IF OrigById(id)["hospital_expiration"] = Str("EXPIRED") THEN 1 ELSE 0

ExpectedPrediction(id) ==
  IF OrigById(id)["apache_prediction"] = Num(Sentinel) THEN NaN
  ELSE OrigById(id)["apache_prediction"]

Aligned(fx, fy, fa) ==
  /\ Len(files[fy]) = Len(files[fx])
  /\ Len(files[fa]) = Len(files[fx])
  /\ \A k \in DOMAIN files[fx] :
       /\ files[fy][k] = ExpectedLabel(files[fx][k]["patientunitstayid"])
       /\ files[fa][k] = ExpectedPrediction(files[fx][k]["patientunitstayid"])

\* C10: in the six written files the train and the test rows are disjoint,
\* together they are exactly the rows of the pre-split feature table, each
\* row once, and the k-th label and k-th benchmark prediction of a partition
\* are those of the stay in the k-th feature row; in memory the three arrays
\* of a partition carry the same index labels position by position.
C10_PartitionAndAlignment ==
  pc = "done" =>
    /\ FileIds("train_X.csv") \cap FileIds("test_X.csv") = {}
    /\ FileIds("train_X.csv") \cup FileIds("test_X.csv")
         = {cohort[i].v["patientunitstayid"] : i \in DOMAIN cohort}
    /\ Len(files["train_X.csv"]) + Len(files["test_X.csv"]) = Len(cohort)
    /\ Rows(files["train_X.csv"]) \cup Rows(files["test_X.csv"]) = Rows(ToCsv(cohort))
    /\ Aligned("train_X.csv", "train_y.csv", "train_apache.csv")
    /\ Aligned("test_X.csv", "test_y.csv", "test_apache.csv")
    /\ \A k \in DOMAIN split.train_X :
         /\ split.train_y[k].idx = split.train_X[k].idx
         /\ split.train_apache[k].idx = split.train_X[k].idx
    /\ \A k \in DOMAIN split.test_X :
         /\ split.test_y[k].idx = split.test_X[k].idx
         /\ split.test_apache[k].idx = split.test_X[k].idx

\* A split that shuffled: the train rows are out of their original order,
\* and their benchmark predictions differ.
C10_Witness ==
  /\ pc = "done"
  /\ Len(files["train_X.csv"]) = 2
  /\ Len(files["test_X.csv"]) = 1
  /\ split.train_X[1].idx > split.train_X[2].idx
  /\ files["train_apache.csv"][1] # files["train_apache.csv"][2]

(***************************************************************************)
(* C11.  The age cell on ages that are not numerals.                       *)
(***************************************************************************)
\* A row of the table the run halted on whose age float() rejects.
UnparseableAgeRows ==
  {i \in DOMAIN cohort :
     "age" \in DOMAIN cohort[i].v /\ ~Parseable(cohort[i].v["age"])}

\* C11: an age that cannot be parsed as a number is a filtering condition:
\* the run never halts on such a row (it is excluded and the run goes on),
\* and once the age cell has run every remaining age is a number of at
\* least 18 years (93.0 for the placeholder '> 89').
C11_UnparseableAgeIsFiltered ==
  /\ ~(pc = "error" /\ UnparseableAgeRows # {})
  /\ pc = "age" => \A i \in DOMAIN cohort : GeC(cohort[i].v["age"], MinAge)

(***************************************************************************)
(* C12.  execute_query_safely on a failing query.                          *)
(***************************************************************************)
\* Control is inside the try statement of execute_query_safely.
InCall == pc \in {"try", "except", "finally"}

\* The query of the current (or last) call failed.
QueryFailed == \E k \in DOMAIN sent : sent[k].stmt # "rollback;" /\ ~sent[k].ok

\* A rollback was asked of the connection after the failed query.
RollbackIssued ==
  \E k \in DOMAIN sent, j \in DOMAIN sent :
    k < j /\ sent[k].stmt # "rollback;" /\ ~sent[k].ok /\ sent[j].stmt = "rollback;"

\* The rollback of the current (or last) call succeeded.
RolledBack == \E j \in DOMAIN sent : sent[j].stmt = "rollback;" /\ sent[j].ok

RetainMinimum ==
  {"bicarbonate", "platelet", "hemoglobin", "fibrinogen", "hematocrit",
   "albumin", "ioncalcium"}

RetainMaximum ==
  {"creatinine", "alt", "ast", "alkphos", "bun", "bilirubin", "pt", "ptt",
   "inr", "lactate", "tropi", "amylase", "lipase", "cpk"}

\* The columns of analyte a in the current schema: its query columns and,
\* for a computed analyte, its reduced column.
AnalyteColumns(a) ==
  ({MinCol(a), MaxCol(a)} \cup {t[1] : t \in {u \in ReducedAnalytes : u[2] = MinCol(a)}})
    \cap columns

TypeOK ==
  /\ pc \in {"call", "try", "except", "finally", "views",
             "merged", "age_cast", "age", "los", "dx", "weight", "filtered",
             "extracted", "lab_dropped", "sodium", "potassium", "reduced",
             "normalized", "saved", "apache_dropped", "pruned", "encoded",
             "curated", "separated", "split", "done", "error"}
  /\ Len(cohort) <= MaxRows
  /\ \A i \in DOMAIN cohort :
       DOMAIN cohort[i].v = (Tracked \cup Derived \cup AdxColumns) \cap columns
  /\ pc = "merged" => Cardinality(columns) = 106
  /\ con \in ConStatus
  /\ cur \in {"none", "open", "closed"}
  /\ exc \in {"none", "cursor", "query", "rollback"}
  /\ view \in DOMAIN view_files
  /\ Len(sent) <= 2

====
